---- MODULE Spec2Model ----
(***************************************************************************)
(* Model of OrkObjectDisplay, the RViz display of recognized objects       *)
(* (ork_display.cpp / ork_display.h).                                      *)
(*                                                                         *)
(* The display is driven by one thread.  processMessage runs to completion *)
(* once entered: pc = "loop" while its for-loop is running, and while it   *)
(* is, no other handler (another processMessage, reset, the destructor) is *)
(* enabled.  One step of the model is either the entry of processMessage   *)
(* (the clear and the first loop test), one whole iteration of its loop    *)
(* (with the loop test that follows it), reset, or the destructor.         *)
(*                                                                         *)
(* What the collaborators answer (the plugin loader, the database, the     *)
(* mesh loader, the frame manager, tmpnam) is drawn per call.              *)
(***************************************************************************)
EXTENDS Integers, Sequences, FiniteSets, TLC

\* ---------------------------------------------------------------- bounds
MaxBatch == 3        \* longest msg->objects
MaxMsgs  == 2        \* messages delivered over the display's lifetime

\* ---------------------------------------------------------------- inputs
\* object.type.db and object.type.key are free-form strings of the message.
\* Three object types; the first two differ in both components.
ObjectTypes ==
  {[db |-> "db", key |-> "xk"], [db |-> "dbx", key |-> "k"],
   [db |-> "db", key |-> "k"]}

\* What the object's document holds when it could be read.
MetaKinds == {"none", "uri", "attach", "both"}

\* Names std::tmpnam hands out, in this order.
TmpNames == <<"/tmp/f1", "/tmp/f2", "/tmp/f3", "/tmp/f4">>

\* ---------------------------------------------------------------- state
VARIABLES
  alive,            \* the display object exists (destructor not run)
  pc,               \* "idle", or "loop" inside processMessage
  size,             \* msg->objects.size() of the message being processed
  msg,              \* msg->objects[0 .. i_msg), the objects read so far
  i_msg,            \* loop index of processMessage (0-based)
  visuals_,         \* std::vector<shared_ptr<OrkObjectVisual>>
  mesh_resources_,  \* std::map object_hash -> mesh resource URI
  mesh_files_,      \* std::map object_hash -> temporary file name
  fs,               \* temporary files that exist on the filesystem
  msgNo,            \* number of messages delivered so far
  result,           \* how the processMessage that filled visuals_ ended
  last,             \* observation of the last loop iteration of that call
  resolved,         \* per object type: outcome of its last mesh resolution
  stored_by,        \* per cached object_hash: the object type that stored it
  load_failed,      \* URIs for which loadMeshFromResource returned null
  tmp_created,      \* per object type: temporary files created for it
  recorded,         \* every file name ever put in mesh_files_
  removed           \* per file name: number of std::remove calls on it

vars == <<alive, pc, size, msg, i_msg, visuals_, mesh_resources_, mesh_files_, fs,
          msgNo, result, last, resolved, stored_by, load_failed, tmp_created,
          recorded, removed>>

\* ---------------------------------------------------------------- helpers
\* std::map::operator[] assignment
MapPut(m, k, v) == [h \in DOMAIN m \cup {k} |-> IF h = k THEN v ELSE m[h]]

EmptyMap == [h \in {} |-> ""]

\* std::string object_hash = object.type.db + object.type.key;
object_hash(type) == type.db \o type.key

\* db_params.type() == ObjectDbParameters::NONCORE
IsNonCore(db) == db = "dbx"

\* object_info.get_field<std::string>("mesh_uri")
mesh_uri(type) == "pkg://" \o type.db \o "/" \o type.key

\* std::string(std::tmpnam(0)) + ".stl"
StlName(tmp) == tmp \o ".stl"

\* std::tmpnam(0): a name that is not the name of an existing file
FreeNames(files) == {i \in DOMAIN TmpNames : StlName(TmpNames[i]) \notin files}
tmpnam(files) ==
  TmpNames[CHOOSE i \in FreeNames(files) : \A j \in FreeNames(files) : i <= j]

FileUri_NoScheme(file_name) == file_name

\* std::string("file://") + file_name
FileUri(file_name) == "file://" \o file_name

NoObject == [db |-> "", key |-> ""]

\* new OrkObjectVisual(...): no message, no pose yet
NewVisual(m, i) ==
  [msg |-> m, obj |-> i, object |-> NoObject, mesh |-> "", defined |-> FALSE,
   posed |-> FALSE]

PushBack_Front(vs, v) == <<v>> \o vs

\* visuals_.push_back(visual)
PushBack(vs, v) == Append(vs, v)

\* Calls that reach the database backend or the object's document.
BackendCalls ==
  {"createInstance", "generateDb", "ObjectInfo", "load_fields_and_attachments",
   "has_field", "get_field", "has_attachment", "get_attachment_stream"}

\* Calls that touch the disk.
DiskCalls == {"tmpnam", "ofstream::open"}

NoIteration ==
  [msg |-> 0, obj |-> 0, type |-> NoObject, hash |-> "", after_reset |-> FALSE,
   hit |-> FALSE, res |-> "init", meta |-> "none", prev |-> "never", mesh |-> "",
   file |-> "", cached_after |-> FALSE, mesh_failed |-> FALSE,
   tf_ok |-> FALSE, db_failed |-> FALSE, calls |-> {}]

\* ---------------------------------------------------------------- Init
\* OrkObjectDisplay::OrkObjectDisplay(): only the class loader is created;
\* the containers are default-constructed.
Init ==
  /\ alive = TRUE
  /\ pc = "idle"
  /\ size = 0
  /\ msg = <<>>
  /\ i_msg = 0
  /\ visuals_ = <<>>
  /\ mesh_resources_ = EmptyMap
  /\ mesh_files_ = EmptyMap
  /\ fs = {}
  /\ msgNo = 0
  /\ result = "none"
  /\ last = NoIteration
  /\ resolved = [t \in ObjectTypes |-> "never"]
  /\ stored_by = [h \in {} |-> NoObject]
  /\ load_failed = {}
  /\ tmp_created = [t \in ObjectTypes |-> 0]
  /\ recorded = {}
  /\ removed = [f \in {} |-> 0]

\* ---------------------------------------------------------------- reset
reset_ClearsCache ==
  /\ alive /\ pc = "idle"
  /\ visuals_' = <<>>
  /\ mesh_resources_' = EmptyMap
  /\ result' = "none"
  /\ last' = NoIteration
  /\ UNCHANGED <<alive, pc, size, msg, i_msg, mesh_files_, fs, msgNo, resolved,
                 stored_by, load_failed, tmp_created, recorded, removed>>

\* OrkObjectDisplay::reset(): MFDClass::reset(); visuals_.clear();
reset ==
  /\ alive /\ pc = "idle"
  /\ visuals_' = <<>>
  /\ result' = "none"
  /\ last' = NoIteration
  /\ UNCHANGED <<alive, pc, size, msg, i_msg, mesh_resources_, mesh_files_, fs,
                 msgNo, resolved, stored_by, load_failed, tmp_created,
                 recorded, removed>>

\* ---------------------------------------------------------------- destructor
RemoveAll_KeepsFiles(files) == fs

\* std::remove of a path: the file is gone afterwards.
RemoveAll(files) == fs \ files

\* OrkObjectDisplay::~OrkObjectDisplay(): std::remove every mesh_files_ value
Destructor ==
  /\ alive /\ pc = "idle"
  /\ LET files == {mesh_files_[h] : h \in DOMAIN mesh_files_} IN
       /\ fs' = RemoveAll(files)
       /\ removed' = [f \in DOMAIN removed \cup files |->
                        (IF f \in DOMAIN removed THEN removed[f] ELSE 0)
                        + Cardinality({h \in DOMAIN mesh_files_ : mesh_files_[h] = f})]
  /\ alive' = FALSE
  /\ visuals_' = <<>>
  /\ result' = "none"
  /\ last' = NoIteration
  /\ UNCHANGED <<pc, size, msg, i_msg, mesh_resources_, mesh_files_, msgNo,
                 resolved, stored_by, load_failed, tmp_created, recorded>>

\* ---------------------------------------------------------------- processMessage
ClearedVisuals_NoClear(vs) == vs

\* visuals_.clear(), performed on entry of processMessage
ClearedVisuals(vs) == <<>>

\* Entry of processMessage: the clear, and the first test of the loop.
processMessage ==
  /\ alive /\ pc = "idle"
  /\ msgNo < MaxMsgs
  /\ \E n \in 0..MaxBatch :
       /\ size' = n
       /\ pc' = IF n = 0 THEN "idle" ELSE "loop"
       /\ result' = IF n = 0 THEN "complete" ELSE "running"
  /\ msg' = <<>>
  /\ msgNo' = msgNo + 1
  /\ i_msg' = 0
  /\ visuals_' = ClearedVisuals(visuals_)
  /\ last' = [NoIteration EXCEPT !.after_reset = (msgNo > 0 /\ result = "none")]
  /\ UNCHANGED <<alive, mesh_resources_, mesh_files_, fs, resolved, stored_by,
                 load_failed, tmp_created, recorded, removed>>

ResolveKind_AttachmentFirst(hit, noncore, pluginOk, infoOk, meta) ==
  IF hit THEN "hit"
  ELSE IF noncore /\ ~pluginOk THEN "plugin_fail"
  ELSE IF ~infoOk THEN "meta_fail"
  ELSE IF meta \in {"attach", "both"} THEN "attach"
  ELSE IF meta = "uri" THEN "uri"
  ELSE "none"

\* ---------------------------------------------------------------- loop body
\* Lines 107-154: where the mesh resource of the object comes from.
\*   "hit"         the object_hash is in mesh_resources_
\*   "plugin_fail" createInstance threw PluginlibException (db stays null)
\*   "meta_fail"   the ObjectInfo constructor threw (object_info stays empty)
\*   "uri"         the document has the field mesh_uri
\*   "attach"      the document has no mesh_uri but the attachment mesh
\*   "none"        the document has neither
\* After either failure the code falls through (no continue, no return):
\* load_fields_and_attachments, has_field and has_attachment are called on
\* the default-constructed object_info and are taken to return normally,
\* with no field and no attachment.
ResolveKind(hit, noncore, pluginOk, infoOk, meta) ==
  IF hit THEN "hit"
  ELSE IF noncore /\ ~pluginOk THEN "plugin_fail"
  ELSE IF ~infoOk THEN "meta_fail"
  ELSE IF meta \in {"uri", "both"} THEN "uri"
  ELSE IF meta = "attach" THEN "attach"
  ELSE "none"

MeshResource_FieldAlways(res, cache, type, file_name) ==
  IF res = "hit" THEN cache[object_hash(type)]
  ELSE IF res \in {"uri", "none"} THEN mesh_uri(type)
  ELSE IF res = "attach" THEN FileUri(file_name)
  ELSE ""

\* Lines 109-154: the value of mesh_resource after the if/else.
MeshResource(res, cache, type, file_name) ==
  IF res = "hit" THEN cache[object_hash(type)]
  ELSE IF res = "uri" THEN mesh_uri(type)
  ELSE IF res = "attach" THEN FileUri(file_name)
  ELSE ""

CacheInsert_Never(cache, hash, mesh_resource) == cache

CacheInsert_Evicts(cache, hash, mesh_resource) ==
  IF mesh_resource # "" THEN [h \in {hash} |-> mesh_resource] ELSE cache

CacheInsert_SkipFiles(cache, hash, mesh_resource) ==
  IF mesh_resource # ""
     /\ \A i \in DOMAIN TmpNames : mesh_resource # FileUri(StlName(TmpNames[i]))
    THEN MapPut(cache, hash, mesh_resource) ELSE cache

\* Lines 156-157: if (!mesh_resource.empty()) mesh_resources_[hash] = ...
CacheInsert(cache, hash, mesh_resource) ==
  IF mesh_resource # "" THEN MapPut(cache, hash, mesh_resource) ELSE cache

\* Line 153: mesh_files_[object_hash] = file_name (attachment branch only)
FilesInsert(files, res, hash, file_name) ==
  IF res = "attach" THEN MapPut(files, hash, file_name) ELSE files

\* Lines 147-151: the ofstream creates the file (attachment branch only)
FsAfter(files, res, file_name) ==
  IF res = "attach" THEN files \cup {file_name} ELSE files

\* Lines 156-163: the mesh was not in the cache, is not empty, and
\* loadMeshFromResource returned a null pointer: processMessage returns.
MeshLoadReturns(res, mesh_resource, loadOk) ==
  res # "hit" /\ mesh_resource # "" /\ ~loadOk

\* The collaborator calls one iteration makes, in the order of the code.
ResolutionCalls(res, noncore) ==
  IF res = "hit" THEN {}
  ELSE {IF noncore THEN "createInstance" ELSE "generateDb",
        "ObjectInfo", "load_fields_and_attachments", "has_field"}
       \cup (IF res = "uri" THEN {"get_field"} ELSE {"has_attachment"})
       \cup (IF res = "attach"
               THEN {"tmpnam", "ofstream::open", "get_attachment_stream"}
               ELSE {})
       \cup (IF res \in {"uri", "attach"} THEN {"loadMeshFromResource"} ELSE {})

PoseCalls(meshReturn, tfOk) ==
  IF meshReturn THEN {}
  ELSE {"setMessage", "getTransform"}
       \cup (IF tfOk THEN {"setFramePosition", "setFrameOrientation"} ELSE {})

\* Lines 101-105, 168, 179-180: the visual of this iteration, as it is when
\* the iteration ends.
VisualAfter(v, object, meshReturn, mesh_resource, tfOk) ==
  IF meshReturn THEN v
  ELSE [v EXCEPT !.object = object, !.mesh = mesh_resource, !.defined = TRUE,
                 !.posed = tfOk]

TransformReturns_Never(meshReturn, tfOk) == FALSE

\* Lines 172-177: getTransform was called and returned false:
\* processMessage returns.
TransformReturns(meshReturn, tfOk) == ~meshReturn /\ ~tfOk

\* An answer of a collaborator that the iteration never asks for is fixed
\* to TRUE / "none", so that each run of the iteration is drawn once.
AnswersAsked(hit, noncore, pluginOk, infoOk, meta, loadOk, tfOk) ==
  LET dbOk == ~hit /\ (noncore => pluginOk)
      gotInfo == dbOk /\ infoOk
      loads == gotInfo /\ meta # "none"
  IN /\ (~(~hit /\ noncore) => pluginOk)
     /\ (~dbOk => infoOk)
     /\ (~gotInfo => meta = "none")
     /\ (~loads => loadOk)
     /\ (loads /\ ~loadOk => tfOk)

\* One iteration of the for-loop of processMessage (lines 98-181), with the
\* loop test that follows it.
processObject ==
  /\ alive /\ pc = "loop"
  /\ FreeNames(fs) # {}
  /\ \E object \in ObjectTypes, pluginOk \in BOOLEAN, infoOk \in BOOLEAN,
        meta \in MetaKinds, loadOk \in BOOLEAN, tfOk \in BOOLEAN :
       LET tmp == tmpnam(fs)
           hash == object_hash(object)
           noncore == IsNonCore(object.db)
           hit == hash \in DOMAIN mesh_resources_
           res == ResolveKind(hit, noncore, pluginOk, infoOk, meta)
           file_name == StlName(tmp)
           mesh_resource == MeshResource(res, mesh_resources_, object, file_name)
           meshReturn == MeshLoadReturns(res, mesh_resource, loadOk)
           tfReturn == TransformReturns(meshReturn, tfOk)
           visual == NewVisual(msgNo, i_msg + 1)
           cache == IF hit THEN mesh_resources_
                    ELSE CacheInsert(mesh_resources_, hash, mesh_resource)
       IN
       /\ AnswersAsked(hit, noncore, pluginOk, infoOk, meta, loadOk, tfOk)
       /\ msg' = Append(msg, object)
       /\ visuals_' = PushBack(visuals_,
                               VisualAfter(visual, object, meshReturn,
                                           mesh_resource, tfOk))
       /\ mesh_resources_' = cache
       /\ mesh_files_' = IF hit THEN mesh_files_
                         ELSE FilesInsert(mesh_files_, res, hash, file_name)
       /\ fs' = IF hit THEN fs ELSE FsAfter(fs, res, file_name)
       /\ IF meshReturn \/ tfReturn
            THEN /\ pc' = "idle"
                 /\ i_msg' = i_msg
                 /\ result' = IF meshReturn THEN "mesh_fail" ELSE "tf_fail"
            ELSE /\ i_msg' = i_msg + 1
                 /\ pc' = IF i_msg + 1 < size THEN "loop" ELSE "idle"
                 /\ result' = IF i_msg + 1 < size THEN "running" ELSE "complete"
       \* observations
       /\ last' = [msg |-> msgNo, obj |-> i_msg + 1, type |-> object,
                   hash |-> hash, after_reset |-> last.after_reset,
                   hit |-> hit, res |-> res, meta |-> meta,
                   prev |-> resolved[object], mesh |-> mesh_resource,
                   file |-> IF res = "attach" THEN file_name ELSE "",
                   cached_after |-> hash \in DOMAIN cache,
                   mesh_failed |-> meshReturn,
                   tf_ok |-> ~meshReturn /\ tfOk,
                   db_failed |-> last.db_failed
                                 \/ res \in {"plugin_fail", "meta_fail"},
                   calls |-> ResolutionCalls(res, noncore)
                             \cup PoseCalls(meshReturn, tfOk)]
       /\ resolved' = [resolved EXCEPT ![object] = res]
       /\ stored_by' = IF hash \in DOMAIN cache /\ ~hit
                         THEN MapPut(stored_by, hash, object) ELSE stored_by
       /\ load_failed' = IF meshReturn THEN load_failed \cup {mesh_resource}
                         ELSE load_failed
       /\ tmp_created' = IF res = "attach"
                           THEN [tmp_created EXCEPT ![object] = @ + 1]
                           ELSE tmp_created
       /\ recorded' = IF res = "attach" THEN recorded \cup {file_name}
                      ELSE recorded
  /\ UNCHANGED <<alive, size, msgNo, removed>>

\* ================================================================ claims
DbFailures == {"plugin_fail", "meta_fail"}
Iterated == last.res # "init"
Completed == alive /\ pc = "idle" /\ result # "none"

\* C1: when processMessage has returned, after a complete pass or after the
\* first failed transform lookup, visuals_ holds exactly one visual for each
\* object processed before the failure (objects 1..i_msg, in order) and none
\* for the object whose lookup failed or for a later one.
C1_VisualsAreProcessedPrefix ==
  (Completed /\ result \in {"complete", "tf_fail"}) =>
     /\ Len(visuals_) = i_msg
     /\ \A k \in 1..Len(visuals_) : visuals_[k].obj = k /\ visuals_[k].posed

\* C2: every visual in visuals_ was created while processing the most recent
\* message, however that processing ended.
C2_OnlyLatestMessage ==
  \A k \in 1..Len(visuals_) : visuals_[k].msg = msgNo

C2_Witness ==
  /\ msgNo = 2 /\ pc = "idle" /\ result \in {"tf_fail", "mesh_fail"}
  /\ Len(visuals_) >= 1

\* C3 (as stated): whenever an object type is resolved and it has been
\* resolved before, the resolution makes no backend call and no disk I/O.
C3_SecondResolutionIsHit ==
  (Iterated /\ last.prev # "never") =>
     last.calls \cap (BackendCalls \cup DiskCalls) = {}

\* C3 (amended): whenever an object type is resolved and its previous
\* resolution obtained a non-empty mesh URI (from the document or from the
\* cache), the resolution is a cache hit: no backend call, no disk I/O.
C3_SecondResolutionIsHitWhenUriObtained ==
  (Iterated /\ last.prev \in {"uri", "attach", "hit"}) =>
     /\ last.hit
     /\ last.calls \cap (BackendCalls \cup DiskCalls) = {}

C3_Witness ==
  /\ Iterated /\ last.prev \in {"uri", "attach"} /\ last.hit
  /\ last.msg = 2 /\ last.obj = 1

\* C4: a cache lookup for one (db, key) pair never returns the URI stored
\* for a different pair: every hit is on an entry stored by the same pair.
C4_NoCollision ==
  (Iterated /\ last.hit) => stored_by[last.hash] = last.type

\* C5: a resolution that ended in a plugin or metadata failure leaves the
\* key out of the cache, and the next resolution of a key whose previous
\* resolution failed queries the backend again.
C5_FailuresRetried ==
  /\ (Iterated /\ last.res \in DbFailures) => ~last.cached_after
  /\ (Iterated /\ last.prev \in DbFailures) =>
        last.calls \cap BackendCalls # {}

\* C6: every URI stored in mesh_resources_ is one that loadMeshFromResource
\* loaded successfully.
C6_CachedUrisLoaded ==
  \A h \in DOMAIN mesh_resources_ : mesh_resources_[h] \notin load_failed

C8_TempFilesRemovedAtTeardown ==
  /\ alive => (recorded \subseteq fs /\ DOMAIN removed = {})
  /\ ~alive => /\ recorded \cap fs = {}
               /\ DOMAIN removed = recorded
               /\ \A f \in recorded : removed[f] = 1

C8_Witness ==
  /\ ~alive /\ Cardinality(recorded) >= 2
  /\ \E h \in DOMAIN mesh_files_ : mesh_resources_[h] \in load_failed

C10_DbFailureNotFatal ==
  (Completed /\ last.db_failed /\ result # "tf_fail") =>
     (result = "complete" /\ i_msg = size /\ Len(visuals_) = size)

\* C11: an object whose resolution ended in a plugin or metadata failure is
\* skipped: visuals_ holds no visual for it, and no field or attachment
\* lookup, no transform lookup and no pose assignment was made for it.
C11_FailedDetectionSkipped ==
  (Iterated /\ last.res \in DbFailures) =>
     /\ \A k \in 1..Len(visuals_) : visuals_[k].obj # last.obj
     /\ last.calls \cap {"has_field", "has_attachment", "getTransform",
                         "setFramePosition", "setFrameOrientation"} = {}

\* C12: a mesh load failure on an object that is not the last of its message
\* leaves the loop running: the objects after it are still processed.
C12_MeshLoadFailureSkipsOne ==
  (Iterated /\ last.mesh_failed /\ last.obj < size) => pc = "loop"

\* C13: once the transform lookup of the k-th object has failed,
\* processMessage has returned to the host, the k-th object is the last one
\* read, and until the next message is delivered no mesh is resolved, no
\* file created, no cache or registry entry inserted and no visual added;
\* the next message can be delivered.
TransformFailed == Iterated /\ ~last.mesh_failed /\ ~last.tf_ok

C13_TransformFailureStopsBatch ==
  /\ [](TransformFailed =>
          /\ alive /\ pc = "idle" /\ result = "tf_fail"
          /\ last.obj = i_msg + 1 /\ Len(msg) = last.obj
          /\ Len(visuals_) = last.obj
          /\ (msgNo < MaxMsgs => ENABLED processMessage))
  /\ [][(TransformFailed /\ msgNo' = msgNo) =>
          /\ UNCHANGED <<mesh_resources_, mesh_files_, resolved, stored_by,
                         load_failed, tmp_created, recorded, msg, i_msg>>
          /\ (alive' => fs' = fs)
          /\ Len(visuals_') <= Len(visuals_)]_vars

C13_Witness ==
  TransformFailed /\ last.obj = 2 /\ size = 3 /\ msgNo = 1

\* C14: when processMessage has returned, every visual in visuals_ has had
\* its message set and its position and orientation set from a transform
\* lookup that succeeded.
C14_MembersFullyDefined ==
  Completed => \A k \in 1..Len(visuals_) :
                  visuals_[k].defined /\ visuals_[k].posed

C16_FieldBeforeAttachment ==
  /\ (Iterated /\ ~last.hit /\ last.meta \in {"uri", "both"}) =>
        /\ last.mesh = mesh_uri(last.type)
        /\ last.file = ""
        /\ last.calls \cap (DiskCalls \cup {"get_attachment_stream"}) = {}
        /\ last.hash \notin DOMAIN mesh_files_
  /\ (Iterated /\ last.file # "") => last.meta = "attach"

C16_Witness ==
  Iterated /\ ~last.hit /\ last.meta = "both" /\ last.tf_ok

\* C17: a step never removes an entry of mesh_resources_ and never changes
\* the URI of an entry.
C17_CacheNeverEvicted ==
  [][\A h \in DOMAIN mesh_resources_ :
        /\ h \in DOMAIN mesh_resources_'
        /\ mesh_resources_'[h] = mesh_resources_[h]]_vars

C17_Witness ==
  /\ Cardinality(DOMAIN mesh_resources_) = 2 /\ msgNo = 2
  /\ Iterated /\ last.hit /\ last.after_reset

\* C18: a step of reset (the display stays alive, no message is delivered,
\* no loop iteration runs) empties visuals_ and leaves mesh_resources_,
\* mesh_files_ and the temporary files as they are; and in the message that
\* follows a reset, an object type whose previous resolution obtained a URI
\* is a cache hit with no backend call.
ResetStep == alive' /\ pc = "idle" /\ pc' = "idle" /\ msgNo' = msgNo

C18_ResetKeepsCache ==
  /\ [][ResetStep => /\ visuals_' = <<>>
                     /\ UNCHANGED <<mesh_resources_, mesh_files_, fs>>]_vars
  /\ []((Iterated /\ last.after_reset
                  /\ last.prev \in {"uri", "attach", "hit"}) =>
          (last.hit /\ last.calls \cap BackendCalls = {}))

C18_Witness ==
  /\ Iterated /\ last.after_reset /\ last.obj = 1 /\ last.hit
  /\ last.prev = "attach" /\ fs # {}

\* C19: every hash recorded in mesh_files_ is in mesh_resources_, with the
\* URI "file://" followed by the recorded file name.
C19_RegistryReferencedByCache ==
  \A h \in DOMAIN mesh_files_ :
     /\ h \in DOMAIN mesh_resources_
     /\ mesh_resources_[h] = "file://" \o mesh_files_[h]

C19_Witness ==
  /\ Cardinality(DOMAIN mesh_files_) = 2
  /\ \E h \in DOMAIN mesh_files_ : mesh_resources_[h] \in load_failed

\* ================================================================ spec
Next == reset \/ Destructor \/ processMessage \/ processObject

Spec == Init /\ [][Next]_vars
====
